---- MODULE Spec2Model ----
(***************************************************************************)
(* Model of the echo program's instruction processor                       *)
(* (src/src/processor.rs, Processor::process_instruction).                 *)
(*                                                                         *)
(* A state is the host's ledger (the byte regions of the buffer accounts    *)
(* and the balance of every modelled account) together with the call in    *)
(* progress, if any: its inputs, the account regions as the program left   *)
(* them when it returned or aborted, and what the program read, wrote and  *)
(* requested on the way.  While a call is recorded the ledger is still the *)
(* one the call was handed; the host then commits the program's writes if  *)
(* the call returned Ok and discards them otherwise.                       *)
(*                                                                         *)
(* Indices in `writes` and `dataReads` are the 0-based indices of the      *)
(* Rust source; sequences are 1-based as usual.                            *)
(***************************************************************************)
EXTENDS Integers, Sequences, FiniteSets

VARIABLES accounts, lamports, call

vars == <<accounts, lamports, call>>

(***************************************************************************)
(* Bounds of the exploration.                                              *)
(***************************************************************************)
\* Balance of the funded wallet in the initial ledger, in rent units.
WalletLamports == 300

(***************************************************************************)
(* Bytes and integer layout.                                               *)
(***************************************************************************)
Min(a, b) == IF a <= b THEN a ELSE b

RECURSIVE Sum(_)
Sum(s) == IF s = <<>> THEN 0 ELSE Head(s) + Sum(Tail(s))

Zeros(n) == [i \in 1..n |-> 0]

Fill(n, b) == [i \in 1..n |-> b]

\* u64::to_le_bytes / usize as u64: w little-endian base-256 digits of n.
RECURSIVE ToLeBytes(_, _)
ToLeBytes(n, w) ==
    IF w = 0 THEN <<>> ELSE <<n % 256>> \o ToLeBytes(n \div 256, w - 1)

\* from_le_bytes of a digit string.
RECURSIVE FromLeBytes(_)
FromLeBytes(bs) ==
    IF bs = <<>> THEN 0 ELSE Head(bs) + 256 * FromLeBytes(Tail(bs))

(***************************************************************************)
(* state.rs: the headers and their width.                                  *)
(***************************************************************************)
\* { bump_seed: u8, buffer_seed: u64 } serialised field by field.
AUTH_BUFFER_HEADER_SIZE == 9

\* AuthorizedBufferHeader::try_to_vec
AuthorizedBufferHeaderBytes(bump_seed, buffer_seed) ==
    <<bump_seed>> \o ToLeBytes(buffer_seed, 8)

\* VendingMachineBufferHeader::try_to_vec
VendingMachineBufferHeaderBytes(bump_seed, price) ==
    <<bump_seed>> \o ToLeBytes(price, 8)

\* AuthorizedBufferHeader::try_from_slice on exactly the header's bytes.  The
\* u64 field is kept as its eight little-endian digits: the only use of it is
\* buffer_seed.to_le_bytes(), and a stored seed may exceed the checker's
\* integers.
AuthorizedBufferHeaderFromSlice(bs) ==
    [bump_seed |-> bs[1], buffer_seed_le |-> SubSeq(bs, 2, 9)]

(***************************************************************************)
(* instruction.rs: EchoInstruction and its wire format.                    *)
(***************************************************************************)
Instr(tag, data, buffer_seed, price, buffer_size) ==
    [tag |-> tag, data |-> data, buffer_seed |-> buffer_seed,
     price |-> price, buffer_size |-> buffer_size]

EchoIx(data) == Instr("Echo", data, 0, 0, 0)
InitializeAuthorizedEchoIx(seed, size) ==
    Instr("InitializeAuthorizedEcho", <<>>, seed, 0, size)
AuthorizedEchoIx(data) == Instr("AuthorizedEcho", data, 0, 0, 0)
InitializeVendingMachineIx(price, size) ==
    Instr("InitializeVendingMachine", <<>>, 0, price, size)

\* The client's serialisation: tag byte, then the fields in order; a byte
\* vector is a u32 length and the bytes, u64 and usize are eight bytes.
Encode(ix) ==
    CASE ix.tag = "Echo" ->
           <<0>> \o ToLeBytes(Len(ix.data), 4) \o ix.data
      [] ix.tag = "InitializeAuthorizedEcho" ->
           <<1>> \o ToLeBytes(ix.buffer_seed, 8) \o ToLeBytes(ix.buffer_size, 8)
      [] ix.tag = "AuthorizedEcho" ->
           <<2>> \o ToLeBytes(Len(ix.data), 4) \o ix.data
      [] ix.tag = "InitializeVendingMachine" ->
           <<3>> \o ToLeBytes(ix.price, 8) \o ToLeBytes(ix.buffer_size, 8)

DecodeError == [ok |-> FALSE, ix |-> Instr("", <<>>, 0, 0, 0)]

DecodeOk(ix) == [ok |-> TRUE, ix |-> ix]

\* A byte vector filling the rest of the input exactly.
DecodeVec(rest) ==
    IF Len(rest) < 4 THEN [ok |-> FALSE, data |-> <<>>]
    ELSE LET n == FromLeBytes(SubSeq(rest, 1, 4))
             body == SubSeq(rest, 5, Len(rest))
         IN  IF Len(body) = n THEN [ok |-> TRUE, data |-> body]
             ELSE [ok |-> FALSE, data |-> <<>>]

\* EchoInstruction::try_from_slice: the whole input must be one instruction.
Decode(bytes) ==
    IF bytes = <<>> THEN DecodeError
    ELSE LET tag == bytes[1]
             rest == Tail(bytes)
         IN  CASE tag = 0 ->
                    IF DecodeVec(rest).ok
                    THEN DecodeOk(EchoIx(DecodeVec(rest).data)) ELSE DecodeError
               [] tag = 1 ->
                    IF Len(rest) = 16
                    THEN DecodeOk(InitializeAuthorizedEchoIx(
                             FromLeBytes(SubSeq(rest, 1, 8)),
                             FromLeBytes(SubSeq(rest, 9, 16))))
                    ELSE DecodeError
               [] tag = 2 ->
                    IF DecodeVec(rest).ok
                    THEN DecodeOk(AuthorizedEchoIx(DecodeVec(rest).data))
                    ELSE DecodeError
               [] tag = 3 ->
                    IF Len(rest) = 16
                    THEN DecodeOk(InitializeVendingMachineIx(
                             FromLeBytes(SubSeq(rest, 1, 8)),
                             FromLeBytes(SubSeq(rest, 9, 16))))
                    ELSE DecodeError
               [] OTHER -> DecodeError

(***************************************************************************)
(* Addresses.  Wallets and the mint hold keys of their own; a buffer is    *)
(* either a plain program-owned account or lives at a derived address.     *)
(***************************************************************************)
\* Keys that are supplied as authority, mint or payer.
Keys == {1, 2}

\* The funded wallet, and the token mint (which holds no spendable balance).
Wallet == CHOOSE k \in Keys : \A j \in Keys : k <= j
Mint == CHOOSE k \in Keys : k # Wallet

\* A plain buffer account the client created for the program beforehand.
PlainBuffers == {3}

SystemProgram == CHOOSE k \in {4} : TRUE

\* The values of buffer_seed and price the calls use.
BufferSeeds == {3, 257}
Prices == {3}

\* An address outside the modelled ledger: what seeds other than the modelled
\* ones derive to.  No supplied account has it.
Elsewhere == CHOOSE a \in {0} : TRUE

\* The seed tuples whose derived address is an account of the ledger.
ModelledSeeds ==
    {<<"authority", k, ToLeBytes(s, 8)>> : k \in Keys, s \in BufferSeeds}
      \cup {<<"vending_machine", k, ToLeBytes(p, 8)>> : k \in Keys, p \in Prices}

(***************************************************************************)
(* Address derivation (the host's primitive).  The hash is modelled by a   *)
(* fixed function of the seeds: about a third of the candidates are on the *)
(* curve, and distinct seed tuples never share an address.                 *)
(***************************************************************************)
OnCurve(label, key, seed_le, bump) ==
    (Len(label) + key + Sum(seed_le) + bump) % 3 = 0

\* The bump find_program_address settles on: the first candidate, counting
\* down from 255, whose address is off the curve.
RECURSIVE FindBump(_, _, _, _)
FindBump(label, key, seed_le, bump) ==
    IF ~OnCurve(label, key, seed_le, bump) THEN bump
    ELSE FindBump(label, key, seed_le, bump - 1)

\* The address of an off-curve candidate.
DerivedAddress(label, key, seed_le, bump) ==
    IF <<label, key, seed_le>> \in ModelledSeeds
         /\ bump = FindBump(label, key, seed_le, 255)
    THEN 1000 * Len(label) + 300 * key + FromLeBytes(seed_le)
    ELSE Elsewhere

\* Pubkey::create_program_address(&[label, key, seed, &[bump]], program_id)
CreateProgramAddress(label, key, seed_le, bump) ==
    IF OnCurve(label, key, seed_le, bump)
    THEN [ok |-> FALSE, address |-> Elsewhere]
    ELSE [ok |-> TRUE, address |-> DerivedAddress(label, key, seed_le, bump)]

\* Pubkey::find_program_address(&[label, key, seed], program_id)
FindProgramAddress(label, key, seed_le) ==
    LET bump == FindBump(label, key, seed_le, 255)
    IN  [address |-> DerivedAddress(label, key, seed_le, bump), bump |-> bump]

Pdas == {FindProgramAddress(t[1], t[2], t[3]).address : t \in ModelledSeeds}

\* The accounts a caller may hand in as the buffer.
BufferKeys == PlainBuffers \cup Pdas

Addrs == Keys \cup PlainBuffers \cup {SystemProgram} \cup Pdas

(***************************************************************************)
(* Account infos and the host.                                             *)
(***************************************************************************)
\* The data of the accounts this program does not own: the mint holds a
\* token mint's bytes, the wallets and the system program hold none.
ForeignData(key) == IF key = Mint THEN Zeros(82) ELSE <<>>

\* The byte region of an account: mem covers the buffer accounts.
Data(mem, key) == IF key \in DOMAIN mem THEN mem[key] ELSE ForeignData(key)

AccountInfo(key, is_signer) == [key |-> key, is_signer |-> is_signer]

\* Rent::get()?.minimum_balance(space), in units of one byte-year: the
\* account's storage overhead plus its data.
MinimumBalance(space) == 128 + space

CreateAccountIx(from, to, lamps, space) ==
    [from |-> from, to |-> to, lamports |-> lamps, space |-> space]

\* The host's verdict on invoke_signed(create_account): the funding account
\* must have signed, the new address must be unused, the funding account
\* must carry no data and its funds must suffice.
\* The new address is signed for by the seeds, which derive it.
HostCreateAccount(mem, lam, ix, from_signed) ==
    IF ~from_signed THEN "MissingRequiredSignature"
    ELSE IF lam[ix.to] > 0 THEN "AccountAlreadyInUse"
    ELSE IF Data(mem, ix.from) # <<>> THEN "InvalidArgument"
    ELSE IF lam[ix.from] < ix.lamports THEN "InsufficientFunds"
    ELSE "Ok"

\* The ledger after a successful create_account: space zero bytes at `to`.
Created(mem, ix) == [mem EXCEPT ![ix.to] = Zeros(ix.space)]

Funded(lam, ix) ==
    [lam EXCEPT ![ix.from] = @ - ix.lamports, ![ix.to] = @ + ix.lamports]

\* Mint::unpack_unchecked: the length must be Mint::LEN and the option tags
\* and the initialised flag well formed.
MintUnpackUnchecked(data) ==
    /\ Len(data) = 82
    /\ SubSeq(data, 1, 4) \in {<<0, 0, 0, 0>>, <<1, 0, 0, 0>>}
    /\ data[46] \in {0, 1}
    /\ SubSeq(data, 47, 50) \in {<<0, 0, 0, 0>>, <<1, 0, 0, 0>>}

(***************************************************************************)
(* What one call did.                                                      *)
(***************************************************************************)
\* result: "Ok", the name of the ProgramError returned, or "Panic".
\* mem, lam: the ledger as the program left it (before the host commits or
\* discards).  writes: <<key, index>> of every byte the program stored.
\* dataReads: indices of the instruction's data the program indexed.
\* borrowed: accounts whose region the program borrowed.  requests: the
\* create_account instructions handed to the host.  steps: the order of the
\* host requests and region writes.
Outcome(result, mem, lam, writes, dataReads, borrowed, requests, steps) ==
    [result |-> result, mem |-> mem, lam |-> lam, writes |-> writes,
     dataReads |-> dataReads, borrowed |-> borrowed, requests |-> requests,
     steps |-> steps]

\* A return before anything was borrowed, written or requested.
EarlyReturn(result, mem, lam) ==
    Outcome(result, mem, lam, {}, {}, {}, <<>>, <<>>)

(***************************************************************************)
(* The handlers.  Each takes the ledger it is handed and the call's inputs *)
(* and yields the call's outcome.                                          *)
(***************************************************************************)
\* for index in 0..bytes_to_copy { buffer[index] = data[index] }
\* Indexing data past its end aborts the program with the bytes copied so
\* far in place.
\* A store that takes every byte from the front of data.
EchoStoreFirstByte(buffer, data, index) ==
    [buffer EXCEPT ![index + 1] = data[1]]

\* buffer[index] = data[index]
EchoStore(buffer, data, index) ==
    [buffer EXCEPT ![index + 1] = data[index + 1]]

RECURSIVE EchoCopy(_, _, _, _)
EchoCopy(buffer, data, index, bytes_to_copy) ==
    IF index >= bytes_to_copy
    THEN [buffer |-> buffer, panicked |-> FALSE, reads |-> {}, writes |-> {}]
    ELSE IF index >= Len(data)
    THEN [buffer |-> buffer, panicked |-> TRUE, reads |-> {index}, writes |-> {}]
    ELSE LET rest == EchoCopy(EchoStore(buffer, data, index),
                              data, index + 1, bytes_to_copy)
         IN  [rest EXCEPT !.reads = @ \cup {index}, !.writes = @ \cup {index}]

\* The emptiness check left out.
BufferEmptyUnchecked(buffer) == FALSE

\* if buffer.len() == 0 { return Err(AccountDataTooSmall) }
BufferEmpty(buffer) == Len(buffer) = 0

\* EchoInstruction::Echo { data }
EchoHandler(mem, lam, accts, data) ==
    IF Len(accts) < 1 THEN EarlyReturn("NotEnoughAccountKeys", mem, lam)
    ELSE
      LET echo_buffer == accts[1].key
          buffer == mem[echo_buffer]
      IN  IF BufferEmpty(buffer)
          THEN Outcome("AccountDataTooSmall", mem, lam, {}, {}, {echo_buffer},
                       <<>>, <<>>)
          ELSE
            LET bytes_to_copy == Len(buffer)
                copy == EchoCopy(buffer, data, 0, bytes_to_copy)
            IN  Outcome(IF copy.panicked THEN "Panic" ELSE "Ok",
                        [mem EXCEPT ![echo_buffer] = copy.buffer], lam,
                        {<<echo_buffer, i>> : i \in copy.writes}, copy.reads,
                        {echo_buffer}, <<>>,
                        IF copy.writes = {} THEN <<>> ELSE <<"write">>)

\* buffer[0..AUTH_BUFFER_HEADER_SIZE].copy_from_slice(&header_bytes): aborts
\* when the region is shorter than the range or the lengths differ.
HeaderWriteFits(buffer, header_bytes) ==
    /\ Len(buffer) >= AUTH_BUFFER_HEADER_SIZE
    /\ Len(header_bytes) = AUTH_BUFFER_HEADER_SIZE

\* The header written one byte further on.
HeaderWriteShifted(buffer, header_bytes) ==
    [i \in 1..Len(buffer) |->
        IF 1 < i /\ i <= AUTH_BUFFER_HEADER_SIZE + 1
        THEN header_bytes[i - 1] ELSE buffer[i]]

HeaderWrite(buffer, header_bytes) ==
    [i \in 1..Len(buffer) |->
        IF i <= AUTH_BUFFER_HEADER_SIZE THEN header_bytes[i] ELSE buffer[i]]

\* The host's verdict dropped: the header is written whatever it was.
CreateAndWriteHeaderIgnoringError(mem, lam, buffer_key, payer, buffer_size, header_bytes) ==
    LET ix == CreateAccountIx(payer.key, buffer_key,
                              MinimumBalance(buffer_size), buffer_size)
        verdict == HostCreateAccount(mem, lam, ix, payer.is_signer)
        mem1 == IF verdict = "Ok" THEN Created(mem, ix) ELSE mem
        lam1 == IF verdict = "Ok" THEN Funded(lam, ix) ELSE lam
        buffer == mem1[buffer_key]
    IN  IF ~HeaderWriteFits(buffer, header_bytes)
        THEN Outcome("Panic", mem1, lam1, {}, {}, {buffer_key}, <<ix>>,
                     <<"create">>)
        ELSE Outcome("Ok",
                     [mem1 EXCEPT ![buffer_key] =
                          HeaderWrite(buffer, header_bytes)],
                     lam1,
                     {<<buffer_key, i>> :
                          i \in 0..(AUTH_BUFFER_HEADER_SIZE - 1)},
                     {}, {buffer_key}, <<ix>>, <<"create", "write">>)

\* The host's verdict returned only after the header write.
CreateAndWriteHeaderLateReturn(mem, lam, buffer_key, payer, buffer_size, header_bytes) ==
    LET o == CreateAndWriteHeaderIgnoringError(mem, lam, buffer_key, payer,
                 buffer_size, header_bytes)
        verdict == HostCreateAccount(mem, lam, o.requests[1], payer.is_signer)
    IN  IF o.result = "Ok" THEN [o EXCEPT !.result = verdict] ELSE o

\* The part of both Initialize handlers after the address check: the
\* create_account request, then the header write into the new region.
CreateAndWriteHeader(mem, lam, buffer_key, payer, buffer_size, header_bytes) ==
    LET ix == CreateAccountIx(payer.key, buffer_key,
                              MinimumBalance(buffer_size), buffer_size)
        verdict == HostCreateAccount(mem, lam, ix, payer.is_signer)
    IN  IF verdict # "Ok"
        THEN Outcome(verdict, mem, lam, {}, {}, {}, <<ix>>, <<"create">>)
        ELSE
          LET mem1 == Created(mem, ix)
              lam1 == Funded(lam, ix)
              buffer == mem1[buffer_key]
          IN  IF ~HeaderWriteFits(buffer, header_bytes)
              THEN Outcome("Panic", mem1, lam1, {}, {}, {buffer_key}, <<ix>>,
                           <<"create">>)
              ELSE Outcome("Ok",
                           [mem1 EXCEPT ![buffer_key] =
                                HeaderWrite(buffer, header_bytes)],
                           lam1,
                           {<<buffer_key, i>> :
                                i \in 0..(AUTH_BUFFER_HEADER_SIZE - 1)},
                           {}, {buffer_key}, <<ix>>,
                           <<"create", "write">>)

\* The address check left out.
PdaCheckSkipped(pubkey, supplied) == FALSE

\* if pubkey != *buffer.key { return Err(InvalidAccountData) }: the check
\* both Initialize handlers make on the supplied buffer account.
NotTheDerivedAddress(pubkey, supplied) == pubkey # supplied

\* The guard with < for <=.
BufferSizeBelowHeader(buffer_size) == buffer_size < AUTH_BUFFER_HEADER_SIZE

\* The guard on buffer_size, ahead of everything else in the handler.
BufferSizeTooSmall(buffer_size) == buffer_size <= AUTH_BUFFER_HEADER_SIZE

\* EchoInstruction::InitializeAuthorizedEcho { buffer_seed, buffer_size }
InitializeAuthorizedEchoHandler(mem, lam, accts, buffer_seed, buffer_size) ==
    IF BufferSizeTooSmall(buffer_size)
    THEN EarlyReturn("InvalidArgument", mem, lam)
    ELSE IF Len(accts) < 3 THEN EarlyReturn("NotEnoughAccountKeys", mem, lam)
    ELSE
      LET authorized_buffer == accts[1]
          authority == accts[2]
          buffer_seed_b == ToLeBytes(buffer_seed, 8)
          found == FindProgramAddress("authority", authority.key, buffer_seed_b)
      IN  IF NotTheDerivedAddress(found.address, authorized_buffer.key)
          THEN EarlyReturn("InvalidAccountData", mem, lam)
          ELSE CreateAndWriteHeader(mem, lam, authorized_buffer.key, authority,
                   buffer_size,
                   AuthorizedBufferHeaderBytes(found.bump, buffer_seed))

\* for index in 0..buffer_data.len() {
\*     buffer_data[index] = if index < data.len() { data[index] } else { 0 } }
\* A payload byte that keeps the old byte where data has none.
PayloadByteKeepsTail(buffer_data, data, index) ==
    IF index < Len(data) THEN data[index + 1] ELSE buffer_data[index + 1]

\* match index < data.len() { true => data[index], false => 0 }
PayloadByte(buffer_data, data, index) ==
    IF index < Len(data) THEN data[index + 1] ELSE 0

RECURSIVE PayloadFill(_, _, _)
PayloadFill(buffer_data, data, index) ==
    IF index >= Len(buffer_data) THEN buffer_data
    ELSE PayloadFill(
             [buffer_data EXCEPT ![index + 1] =
                  PayloadByte(buffer_data, data, index)],
             data, index + 1)

\* The comparison inverted.
AuthorityAcceptedInverted(authorized_buffer, authority, pda) ==
    pda # authorized_buffer.key

\* The check left out: every authority is accepted.
AuthorityAlwaysAccepted(authorized_buffer, authority, pda) == TRUE

\* The authority check of AuthorizedEcho, as the code makes it: the address
\* re-derived from the supplied authority's key and the stored header must be
\* the buffer's own.  The signer flag of the authority is not consulted.
AuthorityAccepted(authorized_buffer, authority, pda) ==
    pda = authorized_buffer.key

\* EchoInstruction::AuthorizedEcho { data }
AuthorizedEchoHandler(mem, lam, accts, data) ==
    IF Len(accts) < 2 THEN EarlyReturn("NotEnoughAccountKeys", mem, lam)
    ELSE
      LET authorized_buffer == accts[1]
          authority == accts[2]
          key == authorized_buffer.key
          buffer == mem[key]
      IN  IF Len(buffer) < AUTH_BUFFER_HEADER_SIZE
          THEN \* &buffer[..AUTH_BUFFER_HEADER_SIZE] is out of range
               Outcome("Panic", mem, lam, {}, {}, {key}, <<>>, <<>>)
          ELSE
            LET buffer_header == AuthorizedBufferHeaderFromSlice(
                                     SubSeq(buffer, 1, AUTH_BUFFER_HEADER_SIZE))
                pda == CreateProgramAddress("authority", authority.key,
                           buffer_header.buffer_seed_le, buffer_header.bump_seed)
            IN  IF ~pda.ok
                THEN \* create_program_address(..).unwrap() on an Err
                     Outcome("Panic", mem, lam, {}, {}, {key}, <<>>, <<>>)
                ELSE IF ~AuthorityAccepted(authorized_buffer, authority,
                                           pda.address)
                THEN Outcome("IllegalOwner", mem, lam, {}, {}, {key}, <<>>, <<>>)
                ELSE
                  LET buffer_data == SubSeq(buffer, AUTH_BUFFER_HEADER_SIZE + 1,
                                            Len(buffer))
                      filled == PayloadFill(buffer_data, data, 0)
                  IN  Outcome("Ok",
                          [mem EXCEPT ![key] =
                               SubSeq(buffer, 1, AUTH_BUFFER_HEADER_SIZE)
                                 \o filled],
                          lam,
                          {<<key, AUTH_BUFFER_HEADER_SIZE + i>> :
                               i \in 0..(Len(buffer_data) - 1)},
                          {i \in 0..(Len(buffer_data) - 1) : i < Len(data)},
                          {key}, <<>>,
                          IF buffer_data = <<>> THEN <<>> ELSE <<"write">>)

\* InitializeVendingMachine from find_program_address on: the address check,
\* the creation and the header write.
InitializeVendingMachineCreate(mem, lam, accts, price, buffer_size) ==
    LET vending_machine_buffer == accts[1]
        vending_machine_mint == accts[2]
        payer == accts[3]
        found == FindProgramAddress("vending_machine",
                     vending_machine_mint.key, ToLeBytes(price, 8))
        mint_read == {vending_machine_mint.key}
    IN  IF NotTheDerivedAddress(found.address, vending_machine_buffer.key)
        THEN Outcome("InvalidAccountData", mem, lam, {}, {}, mint_read,
                     <<>>, <<>>)
        ELSE LET o == CreateAndWriteHeader(mem, lam,
                          vending_machine_buffer.key, payer, buffer_size,
                          VendingMachineBufferHeaderBytes(found.bump, price))
             IN  [o EXCEPT !.borrowed = @ \cup mint_read]

\* The unpack error returned to the caller.
InitializeVendingMachineMintEnforced(mem, lam, accts, price, buffer_size, mint) ==
    IF ~mint
    THEN Outcome("InvalidAccountData", mem, lam, {}, {}, {accts[2].key},
                 <<>>, <<>>)
    ELSE InitializeVendingMachineCreate(mem, lam, accts, price, buffer_size)

\* InitializeVendingMachine once the mint's data has been unpacked: mint is
\* whether the unpack succeeded.  The result is bound to _mint, logged on
\* failure, and never read.
InitializeVendingMachineWithMint(mem, lam, accts, price, buffer_size, mint) ==
    InitializeVendingMachineCreate(mem, lam, accts, price, buffer_size)

\* EchoInstruction::InitializeVendingMachine { price, buffer_size }
InitializeVendingMachineHandler(mem, lam, accts, price, buffer_size) ==
    IF Len(accts) < 4 THEN EarlyReturn("NotEnoughAccountKeys", mem, lam)
    ELSE InitializeVendingMachineWithMint(mem, lam, accts, price, buffer_size,
             MintUnpackUnchecked(Data(mem, accts[2].key)))

(***************************************************************************)
(* Processor::process_instruction                                          *)
(***************************************************************************)
\* A decode failure mapped to another error.
DecodeFailureAsInvalidArgument(mem, lam) ==
    EarlyReturn("InvalidArgument", mem, lam)

\* try_from_slice(instruction_data).map_err(|_| InvalidInstructionData)?
DecodeFailure(mem, lam) == EarlyReturn("InvalidInstructionData", mem, lam)

ProcessInstruction(mem, lam, accts, instruction_data) ==
    LET decoded == Decode(instruction_data)
        ix == decoded.ix
    IN  IF ~decoded.ok THEN DecodeFailure(mem, lam)
        ELSE CASE ix.tag = "Echo" ->
                    EchoHandler(mem, lam, accts, ix.data)
               [] ix.tag = "InitializeAuthorizedEcho" ->
                    InitializeAuthorizedEchoHandler(mem, lam, accts,
                        ix.buffer_seed, ix.buffer_size)
               [] ix.tag = "AuthorizedEcho" ->
                    AuthorizedEchoHandler(mem, lam, accts, ix.data)
               [] ix.tag = "InitializeVendingMachine" ->
                    InitializeVendingMachineHandler(mem, lam, accts,
                        ix.price, ix.buffer_size)
               [] OTHER -> EarlyReturn("InvalidInstructionData", mem, lam)

(***************************************************************************)
(* The inputs the calls are drawn from.                                    *)
(***************************************************************************)
\* Length of the plain buffer.
PlainLen == 3

\* Most payload bytes a derived buffer holds after its header.
MaxPayload == 3

AuthSizes == {AUTH_BUFFER_HEADER_SIZE, AUTH_BUFFER_HEADER_SIZE + MaxPayload}

VendingSizes ==
    {AUTH_BUFFER_HEADER_SIZE - 1, AUTH_BUFFER_HEADER_SIZE + MaxPayload}

\* A well-formed authorized header for a seed of the model, then payload.
ForgedBuffer ==
    AuthorizedBufferHeaderBytes(255, 3) \o Fill(MaxPayload, 7)

EchoDatas ==
    {<<>>, <<1, 2>>, Fill(PlainLen, 9),
     Fill(AUTH_BUFFER_HEADER_SIZE + MaxPayload, 9), ForgedBuffer}

AuthorizedEchoDatas == {<<>>, <<1, 2>>, Fill(MaxPayload + 1, 9)}

Instructions ==
    {EchoIx(d) : d \in EchoDatas}
      \cup {AuthorizedEchoIx(d) : d \in AuthorizedEchoDatas}
      \cup {InitializeAuthorizedEchoIx(s, n) : s \in BufferSeeds, n \in AuthSizes}
      \cup {InitializeVendingMachineIx(p, n) : p \in Prices, n \in VendingSizes}

\* Inputs that are no instruction: nothing, an unknown tag, a vector cut
\* short, a fixed-width instruction cut short, bytes after the instruction.
Malformed ==
    {<<>>, <<4>>, <<0, 2, 0, 0, 0, 9>>, <<1, 3>>,
     Encode(AuthorizedEchoIx(<<1, 2>>)) \o <<0>>}

InstructionData == {Encode(ix) : ix \in Instructions} \cup Malformed

Prefixes(list) == {SubSeq(list, 1, n) : n \in 0..(Len(list) - 1)}

\* A list with the accounts every handler asks for.
SomeAccounts ==
    <<AccountInfo(CHOOSE b \in PlainBuffers : TRUE, FALSE),
      AccountInfo(Wallet, TRUE), AccountInfo(Wallet, TRUE),
      AccountInfo(SystemProgram, FALSE)>>

EchoAccounts == {<<>>} \cup {<<AccountInfo(b, FALSE)>> : b \in BufferKeys}

AuthorizedEchoAccounts ==
    Prefixes(SubSeq(SomeAccounts, 1, 2))
      \cup {<<AccountInfo(b, FALSE), AccountInfo(k, s)>> :
               b \in BufferKeys, k \in Keys, s \in BOOLEAN}

InitializeAuthorizedEchoAccounts ==
    Prefixes(SubSeq(SomeAccounts, 1, 3))
      \cup {<<AccountInfo(b, FALSE), AccountInfo(k, s),
              AccountInfo(SystemProgram, FALSE)>> :
               b \in BufferKeys, k \in Keys, s \in BOOLEAN}

InitializeVendingMachineAccounts ==
    Prefixes(SomeAccounts)
      \cup {<<AccountInfo(b, FALSE), AccountInfo(m, FALSE),
              AccountInfo(Wallet, s), AccountInfo(SystemProgram, FALSE)>> :
               b \in BufferKeys, m \in Keys, s \in BOOLEAN}

RejectAccounts == {<<>>, SomeAccounts}

(***************************************************************************)
(* The state machine: one call per step.                                   *)
(***************************************************************************)
NoCall ==
    [op |-> "None", bytes |-> <<>>, ix |-> DecodeError.ix, accounts |-> <<>>,
     result |-> "Ok", mem |-> <<>>, lam |-> <<>>, writes |-> {},
     dataReads |-> {}, borrowed |-> {}, requests |-> <<>>, steps |-> <<>>]

Idle == call.op = "None"

Init ==
    /\ accounts = [a \in BufferKeys |->
                      IF a \in PlainBuffers THEN Zeros(PlainLen) ELSE <<>>]
    /\ lamports = [a \in Addrs |->
                      IF a = Wallet THEN WalletLamports
                      ELSE IF a \in PlainBuffers THEN MinimumBalance(PlainLen)
                      ELSE IF a = Mint THEN MinimumBalance(82)
                      ELSE 0]
    /\ call = NoCall

\* The host runs the program on the ledger it holds.
Invoke(op, bytes, accts) ==
    LET o == ProcessInstruction(accounts, lamports, accts, bytes)
    IN  /\ call' = [op |-> op, bytes |-> bytes, ix |-> Decode(bytes).ix,
                    accounts |-> accts, result |-> o.result, mem |-> o.mem,
                    lam |-> o.lam, writes |-> o.writes,
                    dataReads |-> o.dataReads, borrowed |-> o.borrowed,
                    requests |-> o.requests, steps |-> o.steps]
        /\ UNCHANGED <<accounts, lamports>>

\* The host commits what the program wrote when the call returned Ok; an
\* error or an abort discards the call's effects.
Commit ==
    /\ ~Idle
    /\ accounts' = IF call.result = "Ok" THEN call.mem ELSE accounts
    /\ lamports' = IF call.result = "Ok" THEN call.lam ELSE lamports
    /\ call' = NoCall

\* The inputs that decode to the instruction of the given tag.
Tagged(tag) ==
    {bytes \in InstructionData : Decode(bytes).ok /\ Decode(bytes).ix.tag = tag}

EchoData == Tagged("Echo")
InitializeAuthorizedEchoData == Tagged("InitializeAuthorizedEcho")
AuthorizedEchoData == Tagged("AuthorizedEcho")
InitializeVendingMachineData == Tagged("InitializeVendingMachine")
RejectData == {bytes \in InstructionData : ~Decode(bytes).ok}

Echo ==
    /\ Idle
    /\ \E bytes \in EchoData, accts \in EchoAccounts :
          Invoke("Echo", bytes, accts)

InitializeAuthorizedEcho ==
    /\ Idle
    /\ \E bytes \in InitializeAuthorizedEchoData,
          accts \in InitializeAuthorizedEchoAccounts :
          Invoke("InitializeAuthorizedEcho", bytes, accts)

AuthorizedEcho ==
    /\ Idle
    /\ \E bytes \in AuthorizedEchoData, accts \in AuthorizedEchoAccounts :
          Invoke("AuthorizedEcho", bytes, accts)

InitializeVendingMachine ==
    /\ Idle
    /\ \E bytes \in InitializeVendingMachineData,
          accts \in InitializeVendingMachineAccounts :
          Invoke("InitializeVendingMachine", bytes, accts)

Reject ==
    /\ Idle
    /\ \E bytes \in RejectData, accts \in RejectAccounts :
          Invoke("Reject", bytes, accts)

Next ==
    \/ Echo
    \/ InitializeAuthorizedEcho
    \/ AuthorizedEcho
    \/ InitializeVendingMachine
    \/ Reject
    \/ Commit

Spec == Init /\ [][Next]_vars

\* The histories in which buffers are created and written only through the
\* authenticated instructions: no Echo call is made.
NextWithoutEcho ==
    \/ InitializeAuthorizedEcho
    \/ AuthorizedEcho
    \/ InitializeVendingMachine
    \/ Reject
    \/ Commit

SpecWithoutEcho == Init /\ [][NextWithoutEcho]_vars

(***************************************************************************)
(* Properties.                                                             *)
(***************************************************************************)
H == AUTH_BUFFER_HEADER_SIZE

\* The call in progress, its first account and the region it was handed.
Pending(op) == call.op = op

BufferKey == call.accounts[1].key

BufferBefore == accounts[BufferKey]

BufferAfter == call.mem[BufferKey]

\* The program left every region as it found it and asked the host nothing.
Untouched ==
    /\ call.mem = accounts
    /\ call.writes = {}
    /\ call.requests = <<>>

\* The addresses InitializeAuthorizedEcho creates buffers at.
AuthorityPdas ==
    {FindProgramAddress("authority", k, ToLeBytes(s, 8)).address :
        k \in Keys, s \in BufferSeeds}

\* The errors of the taxonomy, with those the host returns for a creation.
TypedErrors ==
    {"InvalidInstructionData", "InvalidArgument", "AccountDataTooSmall",
     "InvalidAccountData", "IllegalOwner",
     "MissingRequiredSignature", "AccountAlreadyInUse", "InsufficientFunds"}

\* C1: once an authorized buffer exists, no step of any call changes the
\* first AUTH_BUFFER_HEADER_SIZE bytes the ledger holds for it.
C1_HeaderImmutable ==
    [][\A a \in AuthorityPdas :
          accounts[a] # <<>> =>
              SubSeq(accounts'[a], 1, H) = SubSeq(accounts[a], 1, H)]_vars

\* C2: an AuthorizedEcho call whose authority account has not signed writes
\* no byte of the buffer.
C2_UnsignedAuthorityWritesNothing ==
    (Pending("AuthorizedEcho") /\ Len(call.accounts) >= 2
        /\ ~call.accounts[2].is_signer)
      => (call.writes = {} /\ call.mem = accounts)

\* The address AuthorizedEcho re-derives from the supplied authority and the
\* header the buffer stores.
Rederived ==
    LET buffer_header == AuthorizedBufferHeaderFromSlice(SubSeq(BufferBefore, 1, H))
    IN  CreateProgramAddress("authority", call.accounts[2].key,
            buffer_header.buffer_seed_le, buffer_header.bump_seed)

\* An AuthorizedEcho call on a buffer that stores a header, whose
\* re-derivation yields an address other than the buffer's own.
RederivedDiffers ==
    /\ Pending("AuthorizedEcho")
    /\ Len(call.accounts) >= 2
    /\ Len(BufferBefore) >= H
    /\ Rederived.ok
    /\ Rederived.address # BufferKey

\* C3: an AuthorizedEcho call whose re-derived address differs from the
\* buffer's own address returns IllegalOwner and leaves every byte of the
\* buffer (and of every other region) as it was.
C3_AuthorizationRejection ==
    RederivedDiffers => (call.result = "IllegalOwner" /\ Untouched)

\* C3 witness: a rejected write that carried data, on a buffer created for
\* another authority.
C3_Witness ==
    /\ RederivedDiffers
    /\ BufferKey \in AuthorityPdas
    /\ call.ix.data # <<>>
    /\ call.result = "IllegalOwner"

\* C4: an InitializeAuthorizedEcho call with buffer_size <= the header width
\* returns InvalidArgument with no creation request issued, no account
\* borrowed and no byte written, whatever accounts were supplied.
C4_CreationGuard ==
    (Pending("InitializeAuthorizedEcho") /\ call.ix.buffer_size <= H)
      => (call.result = "InvalidArgument" /\ Untouched /\ call.borrowed = {}
            /\ call.steps = <<>>)

\* C4 witness: the guard rejects a call whose accounts would otherwise have
\* passed the address check, and one that supplied no accounts at all.
C4_Witness ==
    /\ Pending("InitializeAuthorizedEcho")
    /\ call.ix.buffer_size = H
    /\ call.result = "InvalidArgument"
    /\ Len(call.accounts) = 3
    /\ call.accounts[2].is_signer
    /\ FindProgramAddress("authority", call.accounts[2].key,
           ToLeBytes(call.ix.buffer_seed, 8)).address = BufferKey

\* C5: a call that does not return Ok returns one of the typed errors; none
\* aborts and none returns an error outside the taxonomy.
C5_FailuresAreTyped ==
    (~Idle /\ call.result # "Ok") => call.result \in TypedErrors

\* C6: Echo on a non-empty buffer of length R with data of length P stores
\* exactly the first min(R, P) bytes and indexes data only below P.
C6_EchoCopiesMin ==
    (Pending("Echo") /\ Len(call.accounts) >= 1 /\ Len(BufferBefore) > 0)
      => LET R == Len(BufferBefore)
             P == Len(call.ix.data)
         IN  /\ call.writes = {<<BufferKey, i>> : i \in 0..(Min(R, P) - 1)}
             /\ \A i \in call.dataReads : i < P

\* C7: Echo on a non-empty buffer of length R with data of length P >= R
\* returns Ok, the buffer is then the first R bytes of data, its length is
\* R and no other region changed.
C7_EchoOverwrites ==
    (Pending("Echo") /\ Len(call.accounts) >= 1 /\ Len(BufferBefore) > 0
        /\ Len(call.ix.data) >= Len(BufferBefore))
      => /\ call.result = "Ok"
         /\ Len(BufferAfter) = Len(BufferBefore)
         /\ \A i \in 1..Len(BufferBefore) : BufferAfter[i] = call.ix.data[i]
         /\ \A a \in BufferKeys \ {BufferKey} : call.mem[a] = accounts[a]

\* C7 witness: data longer than the buffer, with bytes that differ from one
\* another and from the buffer's.
C7_Witness ==
    /\ Pending("Echo")
    /\ Len(call.accounts) >= 1
    /\ Len(BufferBefore) > 0
    /\ Len(call.ix.data) > Len(BufferBefore)
    /\ call.ix.data[1] # call.ix.data[2]
    /\ BufferAfter # BufferBefore
    /\ call.result = "Ok"

\* C8: Echo on a buffer of length 0 returns AccountDataTooSmall for every
\* data and writes nothing.
C8_EchoEmptyBuffer ==
    (Pending("Echo") /\ Len(call.accounts) >= 1 /\ Len(BufferBefore) = 0)
      => (call.result = "AccountDataTooSmall" /\ Untouched
            /\ call.dataReads = {})

\* C8 witness: an Echo with data on an account that holds no bytes.
C8_Witness ==
    /\ Pending("Echo")
    /\ Len(call.accounts) >= 1
    /\ Len(BufferBefore) = 0
    /\ call.ix.data # <<>>
    /\ call.result = "AccountDataTooSmall"

\* C9: a successful AuthorizedEcho on a buffer of size R with data of length
\* P writes only indices in [H, R); afterwards byte H+i is data[i] for every
\* i < min(P, R-H), every byte in [H+P, R) is zero, the header and the
\* length are as before and no other region changed.
C9_AuthorizedWriteBounds ==
    (Pending("AuthorizedEcho") /\ call.result = "Ok")
      => LET R == Len(BufferBefore)
             P == Len(call.ix.data)
         IN  /\ \A w \in call.writes :
                   w[1] = BufferKey /\ w[2] >= H /\ w[2] < R
             /\ Len(BufferAfter) = R
             /\ SubSeq(BufferAfter, 1, H) = SubSeq(BufferBefore, 1, H)
             /\ \A i \in 0..(Min(P, R - H) - 1) :
                   BufferAfter[H + i + 1] = call.ix.data[i + 1]
             /\ \A j \in (H + P)..(R - 1) : BufferAfter[j + 1] = 0
             /\ \A a \in BufferKeys \ {BufferKey} : call.mem[a] = accounts[a]

\* C9 witness: a short write over a payload whose tail held non-zero bytes.
C9_Witness ==
    /\ Pending("AuthorizedEcho")
    /\ call.result = "Ok"
    /\ call.ix.data # <<>>
    /\ H + Len(call.ix.data) < Len(BufferBefore)
    /\ BufferBefore[Len(BufferBefore)] # 0

\* C9 witness of the other case: data longer than the payload region.
C9_WitnessDropped ==
    /\ Pending("AuthorizedEcho")
    /\ call.result = "Ok"
    /\ H + Len(call.ix.data) > Len(BufferBefore)

\* C10: input that does not decode to an instruction returns
\* InvalidInstructionData, and no account is borrowed, created or written.
C10_DecodeFailure ==
    (~Idle /\ ~Decode(call.bytes).ok)
      => (call.result = "InvalidInstructionData" /\ Untouched
            /\ call.borrowed = {} /\ call.steps = <<>>)

\* C10 witness: an unknown tag, with accounts supplied.
C10_Witness ==
    /\ Pending("Reject")
    /\ call.bytes # <<>>
    /\ call.bytes[1] > 3
    /\ call.accounts # <<>>
    /\ call.result = "InvalidInstructionData"

\* The address an Initialize call derives from the account after the buffer
\* and the instruction's seed or price.
CreationPath ==
    Pending("InitializeAuthorizedEcho") \/ Pending("InitializeVendingMachine")

ExpectedPda ==
    IF Pending("InitializeAuthorizedEcho")
    THEN FindProgramAddress("authority", call.accounts[2].key,
                            ToLeBytes(call.ix.buffer_seed, 8))
    ELSE FindProgramAddress("vending_machine", call.accounts[2].key,
                            ToLeBytes(call.ix.price, 8))

\* The call supplied every account its handler asks for and, for
\* InitializeAuthorizedEcho, passed the buffer_size guard.
ReachesPdaCheck ==
    \/ /\ Pending("InitializeAuthorizedEcho")
       /\ Len(call.accounts) >= 3
       /\ call.ix.buffer_size > H
    \/ /\ Pending("InitializeVendingMachine")
       /\ Len(call.accounts) >= 4

\* C11 as stated: an Initialize call whose supplied buffer account is not at
\* the derived address returns InvalidAccountData, with no creation request
\* and no byte written.
C11_Original ==
    (CreationPath /\ Len(call.accounts) >= 2
        /\ ExpectedPda.address # BufferKey)
      => (call.result = "InvalidAccountData" /\ Untouched)

\* C11 amended: the same, for the calls that supply every account the
\* handler asks for and (InitializeAuthorizedEcho) a buffer_size above the
\* header width; the other calls are rejected before the address is derived.
C11_DerivationCheck ==
    (ReachesPdaCheck /\ ExpectedPda.address # BufferKey)
      => (call.result = "InvalidAccountData" /\ Untouched
            /\ call.steps = <<>>)

\* C11 witness: a signed, funded InitializeVendingMachine whose buffer
\* account is a derived address of the program, but of other seeds.
C11_Witness ==
    /\ Pending("InitializeVendingMachine")
    /\ Len(call.accounts) >= 4
    /\ call.accounts[3].is_signer
    /\ BufferKey \in Pdas
    /\ ExpectedPda.address # BufferKey
    /\ call.result = "InvalidAccountData"

\* C12: a successful InitializeAuthorizedEcho{buffer_seed, buffer_size} with
\* authority A leaves exactly one new account: it is at the address derived
\* from ("authority", A, buffer_seed), it did not exist before, it has
\* buffer_size bytes, the first AUTH_BUFFER_HEADER_SIZE of them the encoding
\* of {bump, buffer_seed} for the derived bump and the rest zero; every other
\* region is as before; one creation request was issued, for that address
\* and size and paid by A, and it came before the header write.
C12_InitializeAuthorizedEchoEffect ==
    (Pending("InitializeAuthorizedEcho") /\ call.result = "Ok")
      => LET found == FindProgramAddress("authority", call.accounts[2].key,
                          ToLeBytes(call.ix.buffer_seed, 8))
             size == call.ix.buffer_size
         IN  /\ BufferKey = found.address
             /\ BufferBefore = <<>>
             /\ lamports[BufferKey] = 0
             /\ Len(BufferAfter) = size
             /\ SubSeq(BufferAfter, 1, H) =
                    AuthorizedBufferHeaderBytes(found.bump, call.ix.buffer_seed)
             /\ SubSeq(BufferAfter, H + 1, size) = Zeros(size - H)
             /\ \A a \in BufferKeys \ {BufferKey} : call.mem[a] = accounts[a]
             /\ call.requests =
                    <<CreateAccountIx(call.accounts[2].key, found.address,
                                      MinimumBalance(size), size)>>
             /\ call.steps = <<"create", "write">>
             /\ call.writes = {<<BufferKey, i>> : i \in 0..(H - 1)}

\* C12 witness: a creation whose bump is not the first candidate and whose
\* seed fills more than one byte, beside an account that exists already.
C12_Witness ==
    /\ Pending("InitializeAuthorizedEcho")
    /\ call.result = "Ok"
    /\ BufferAfter[1] < 255
    /\ BufferAfter[3] # 0
    /\ \E a \in BufferKeys \ PlainBuffers : accounts[a] # <<>>

\* data cut or zero-padded to n bytes.
Padded(data, n) == [i \in 1..n |-> IF i <= Len(data) THEN data[i] ELSE 0]

\* The buffer handed to the call is one that InitializeAuthorizedEcho created
\* for the authority the call supplies.
OwnAuthorizedBuffer ==
    /\ Len(call.accounts) >= 2
    /\ BufferBefore # <<>>
    /\ \E s \in BufferSeeds :
          BufferKey = FindProgramAddress("authority", call.accounts[2].key,
                                         ToLeBytes(s, 8)).address

\* C13: in every history of creations and authenticated writes, an
\* AuthorizedEcho{data} on a buffer InitializeAuthorizedEcho created, with
\* the authority it was created for, returns Ok and leaves the payload
\* region equal to data cut or zero-padded to the region's length, the
\* header as it was.
C13_AuthorizedEchoSucceeds ==
    (Pending("AuthorizedEcho") /\ OwnAuthorizedBuffer)
      => /\ call.result = "Ok"
         /\ Len(BufferAfter) = Len(BufferBefore)
         /\ SubSeq(BufferAfter, 1, H) = SubSeq(BufferBefore, 1, H)
         /\ SubSeq(BufferAfter, H + 1, Len(BufferAfter)) =
                Padded(call.ix.data, Len(BufferBefore) - H)

\* C13 witness: a write by the owning authority over a payload that an
\* earlier AuthorizedEcho filled, with data that changes it.
C13_Witness ==
    /\ Pending("AuthorizedEcho")
    /\ OwnAuthorizedBuffer
    /\ BufferBefore[H + 1] # 0
    /\ call.ix.data # <<>>
    /\ BufferAfter # BufferBefore
    /\ call.result = "Ok"

\* The errors the host returns for a create_account request.
HostErrors ==
    {"MissingRequiredSignature", "AccountAlreadyInUse", "InvalidArgument",
     "InsufficientFunds"}

\* The account an Initialize call names as the payer of the creation.
Payer ==
    IF Pending("InitializeAuthorizedEcho") THEN call.accounts[2]
    ELSE call.accounts[3]

\* The request an Initialize call hands to the host.
CreationRequest ==
    CreateAccountIx(Payer.key, BufferKey,
                    MinimumBalance(call.ix.buffer_size), call.ix.buffer_size)

\* An Initialize call that passes the program's own checks.
ReachesCreation == ReachesPdaCheck /\ ExpectedPda.address = BufferKey

\* C14: an Initialize call whose derived address already holds an account,
\* or whose payer cannot fund the new one, issues its one creation request,
\* returns the error the host gave for it, and writes no byte: the existing
\* account's header and payload, and every other region, are as before.
C14_CreationErrorPropagates ==
    (ReachesCreation
        /\ (lamports[BufferKey] > 0 \/ lamports[Payer.key] < CreationRequest.lamports))
      => /\ call.result \in HostErrors
         /\ call.result = HostCreateAccount(accounts, lamports,
                              CreationRequest, Payer.is_signer)
         /\ call.requests = <<CreationRequest>>
         /\ call.steps = <<"create">>
         /\ call.writes = {}
         /\ call.mem = accounts

\* C14 witness: a signed and funded InitializeAuthorizedEcho on a buffer
\* that exists already and holds a written payload.
C14_Witness ==
    /\ Pending("InitializeAuthorizedEcho")
    /\ ReachesCreation
    /\ Payer.is_signer
    /\ lamports[Payer.key] >= CreationRequest.lamports
    /\ Len(BufferBefore) > H
    /\ BufferBefore[H + 1] # 0
    /\ call.result = "AccountAlreadyInUse"

\* C14 witness of the other case: the address is free and the payer signed,
\* but its balance is below the rent of the new account.
C14_WitnessFunds ==
    /\ CreationPath
    /\ ReachesCreation
    /\ lamports[BufferKey] = 0
    /\ Payer.key = Wallet
    /\ call.result = "InsufficientFunds"

\* What InitializeVendingMachine does in the pending call's pre-state when
\* the unpack of the mint's data succeeds (mint = TRUE) or fails (FALSE).
VendingMachineOutcome(mint) ==
    InitializeVendingMachineWithMint(accounts, lamports, call.accounts,
        call.ix.price, call.ix.buffer_size, mint)

\* C15: the mint-format check of InitializeVendingMachine is not enforced:
\* with the buffer, mint key, price, payer and buffer_size of the call, the
\* result, the creation request and the bytes written are those of the call
\* both when the mint's data unpacks and when it does not.
C15_MintCheckNonFatal ==
    (Pending("InitializeVendingMachine") /\ Len(call.accounts) >= 4)
      => \A mint \in BOOLEAN :
           LET o == VendingMachineOutcome(mint)
           IN  /\ o.result = call.result
               /\ o.requests = call.requests
               /\ o.writes = call.writes
               /\ o.mem = call.mem
               /\ o.steps = call.steps

\* C15 witness: a vending machine buffer is created and its header written
\* although the account given as mint holds no mint data.
C15_Witness ==
    /\ Pending("InitializeVendingMachine")
    /\ Len(call.accounts) >= 4
    /\ ~MintUnpackUnchecked(Data(accounts, call.accounts[2].key))
    /\ call.result = "Ok"
    /\ call.steps = <<"create", "write">>
    /\ SubSeq(BufferAfter, 1, H)
         = VendingMachineBufferHeaderBytes(ExpectedPda.bump, call.ix.price)

\* C15 witness of the other side: the same with well-formed mint data.
C15_WitnessValidMint ==
    /\ Pending("InitializeVendingMachine")
    /\ Len(call.accounts) >= 4
    /\ MintUnpackUnchecked(Data(accounts, call.accounts[2].key))
    /\ call.result = "Ok"

\* C16: an InitializeVendingMachine call that asks for a buffer_size below
\* AUTH_BUFFER_HEADER_SIZE returns InvalidArgument and issues no creation
\* request.  Stated for the calls nothing else refuses: the buffer is at the
\* derived address, which is free, and the payer signed and holds the rent.
C16_VendingMachineSizeGuard ==
    (Pending("InitializeVendingMachine")
        /\ ReachesCreation
        /\ HostCreateAccount(accounts, lamports, CreationRequest,
                             Payer.is_signer) = "Ok"
        /\ call.ix.buffer_size < H)
      => (call.result = "InvalidArgument" /\ call.requests = <<>>)

\* C17: a call that returns an error value, from one of the program's checks
\* or from the host's account creation, has written no byte: the regions
\* the program holds at its return are those it was given.
C17_ChecksPrecedeWrites ==
    (~Idle /\ call.result \notin {"Ok", "Panic"})
      => (call.writes = {} /\ call.mem = accounts)

\* C17 witness: InitializeVendingMachine on a vending machine buffer that
\* exists, with room for the header, is refused by the host.
C17_Witness ==
    /\ Pending("InitializeVendingMachine")
    /\ ReachesCreation
    /\ Len(BufferBefore) >= H
    /\ call.result = "AccountAlreadyInUse"
    /\ call.steps = <<"create">>

====
